---- MODULE Spec2Model ----
(***************************************************************************)
(* Saarthi real-estate backend: the User / Property / Favorite stores, the *)
(* browser sessions and the in-flight HTTP requests.  Every `await` of a   *)
(* handler is one step of the request that runs it, so requests interleave *)
(* exactly where the Node event loop lets them.                            *)
(*                                                                         *)
(* The specifications share the variables:                                 *)
(*   SpecAuth    register / password login / logout                        *)
(*   SpecGoogle  Google OAuth verify callback next to register             *)
(*   SpecSession login, logout and the routes that read the principal      *)
(*   Spec        favorite controller next to property create / delete      *)
(*   SpecFav     the whole favorite controller, two users side by side     *)
(*   SpecProp    property controller behind the auth gates                 *)
(*   SpecCreate  createProperty from every body, then update / delete      *)
(*   SpecIds     every handler that takes a record identifier              *)
(*   SpecFetch   getProperty next to property create / delete              *)
(*   SpecFail    auth routes, contact form and listing, database failing   *)
(*   SpecTrack   page-view tracking middleware                             *)
(*   SpecList    the three listing routes next to property writes          *)
(*   SpecFilter  getProperties over every store and filter combination     *)
(*   SpecPage    getProperties page by page over a fixed store             *)
(***************************************************************************)
EXTENDS Integers, Sequences, FiniteSets, Bags, TLC

VARIABLES
  users,     \* User collection: sequence of documents, _id = index (never deleted)
  sessions,  \* session store: session cookie -> _id of the serialized principal, 0 = none
  props,     \* Property collection: _id -> document
  favs,      \* Favorite collection: a bag of documents
  reqs,      \* in-flight requests: slot -> request record
  now,       \* the clock read by new Date() / Date.now
  nextPid,   \* next Property _id
  contacts,      \* Contact collection: sequence of documents
  interactions,  \* UserInteraction collection: sequence of documents
  sessionIds     \* session store: session cookie -> stored session.sessionId, "" = none

vars == <<users, sessions, props, favs, reqs, now, nextPid,
          contacts, interactions, sessionIds>>

\* The stores of the contact form and of the tracking middleware
tracked == <<contacts, interactions, sessionIds>>

\* No contact message, no interaction record, no session with a sessionId
InitTracked ==
  /\ contacts = << >>
  /\ interactions = << >>
  /\ sessionIds = << >>

-----------------------------------------------------------------------------
(* Bounds of the model *)

MaxUsers == 3     \* User documents the store may hold
MaxProps == 1     \* Property documents ever created

\* Request slots: two requests in flight at once
ReqIds == {1, 2}

-----------------------------------------------------------------------------
(* Input alphabets *)

EmailInputs == {"a@x.com", "A@X.com", "b@x.com"}
Passwords   == {"pw1", "pw2"}
Names       == {"Asha"}
GoogleIds   == {"g1", "g2"}
GoogleEmails == {"a@x.com", "b@x.com"}
Photos      == {"pic1", "pic2"}
Titles      == {"t1", "t2"}
NoteInputs  == {"n1", "n2"}

NoUser  == 0
NoProp  == 0
NoOwner == 0      \* owner: null
BadId   == 0 - 2  \* an id string that does not cast to an ObjectId
Keep    == 0 - 1  \* request body without an owner key

-----------------------------------------------------------------------------
(* User schema *)

NormalizeEmail_Identity(e) == e

\* `lowercase: true, trim: true` on email: the setter mongoose applies to a
\* stored value and to a query filter on the path.
NormalizeEmail(e) ==
  IF e = "A@X.com" THEN "a@x.com" ELSE e

\* bcrypt.hash(password, 12)
hashPassword(p) == "$2b$12$" \o p

\* bcrypt.compare(plain, hash)
comparePassword(p, h) == hashPassword(p) = h

\* User.findOne({ email }): _id of the match, 0 when there is none
FindUserByEmail(us, e) ==
  IF \E i \in 1..Len(us) : us[i].email = NormalizeEmail(e)
  THEN CHOOSE i \in 1..Len(us) : us[i].email = NormalizeEmail(e)
  ELSE NoUser

\* User.findOne({ googleId })
FindUserByGoogleId(us, g) ==
  IF \E i \in 1..Len(us) : us[i].googleId = g
  THEN CHOOSE i \in 1..Len(us) : us[i].googleId = g
  ELSE NoUser

\* The unique indexes of the collection: email (unique), googleId (unique,
\* sparse).  TRUE when writing (email, gid) to document `self` (0: a new
\* document) raises no duplicate-key error.
UserIndexAllows(us, self, email, gid) ==
  /\ \A i \in 1..Len(us) : i # self => us[i].email # email
  /\ gid # "" => \A i \in 1..Len(us) : i # self => us[i].googleId # gid

\* A new User document with the schema's defaults
NewUser(email, password, gid, provider, avatar, t) ==
  [ email     |-> NormalizeEmail(email),
    password  |-> password,
    googleId  |-> gid,
    provider  |-> provider,
    role      |-> "user",
    avatar    |-> avatar,
    lastLogin |-> t ]

-----------------------------------------------------------------------------
(* Requests *)

\* Numbers of a query string are decimal strings, held in tenths: "1.5" is 15
Tenth  == 10
Absent == 0 - 1   \* a query parameter that is not supplied

\* req.query of GET /api/properties without any filter parameter
NoFilter ==
  [ search |-> "", location |-> "", propertyType |-> "",
    minPrice |-> Absent, maxPrice |-> Absent, bedrooms |-> Absent,
    furnishing |-> "", possession |-> "", amenities |-> {},
    minArea |-> Absent, maxArea |-> Absent ]

Idle ==
  [ op |-> "", pc |-> "idle", sess |-> "", who |-> NoUser,
    email |-> "", password |-> "", gid |-> "", photo |-> "",
    pid |-> NoProp, owner |-> Keep, title |-> "", notes |-> "",
    found |-> NoUser, status |-> 0, tag |-> "", detail |-> "",
    sid |-> << >>, nexts |-> 0,
    qry |-> NoFilter, page |-> 0, limit |-> 0, skip |-> 0,
    sort |-> "", order |-> "", data |-> << >>, total |-> 0, totalPages |-> 0,
    favorites |-> {}, isFavorite |-> FALSE, isAuth |-> FALSE ]

\* A new request takes the lowest slot that holds no request in flight
Free(r) ==
  /\ reqs[r].pc \in {"idle", "done"}
  /\ \A k \in ReqIds : k < r => reqs[k].pc \notin {"idle", "done"}

\* passport.deserializeUser: the principal of a request on session s
Principal(s) == sessions[s]

\* A request that arrives on session s at a route whose handler reads req.user
Arrive(op, pc, s) ==
  [Idle EXCEPT !.op = op, !.pc = pc, !.sess = s, !.who = Principal(s)]

\* A request that arrives on session s at a route that never reads req.user
ArriveAnon(op, pc, s) ==
  [Idle EXCEPT !.op = op, !.pc = pc, !.sess = s]

\* The response of a request: status code and what produced it; detail is the
\* error.message a catch block copies into the body, "" for a fixed text
Respond(q, code, tag) ==
  [Idle EXCEPT !.op = q.op, !.pc = "done", !.status = code, !.tag = tag]

-----------------------------------------------------------------------------
(* POST /api/auth/register *)

StartRegister(r, s, name, e, p) ==
  /\ Free(r)
  /\ reqs' = [reqs EXCEPT ![r] =
       IF name = "" \/ e = "" \/ p = ""
       THEN Respond(ArriveAnon("register", "", s), 400, "missing")
       ELSE [ArriveAnon("register", "r_find", s) EXCEPT !.email = e, !.password = p]]
  /\ UNCHANGED tracked /\ UNCHANGED <<users, sessions, props, favs, now, nextPid>>

RegisterFind_NoCheck(r) ==
  /\ reqs[r].pc = "r_find"
  /\ reqs' = [reqs EXCEPT ![r].pc = "r_create"]
  /\ UNCHANGED tracked /\ UNCHANGED <<users, sessions, props, favs, now, nextPid>>

RegisterFind(r) ==
  /\ reqs[r].pc = "r_find"
  /\ reqs' = [reqs EXCEPT ![r] =
       IF FindUserByEmail(users, reqs[r].email) # NoUser
       THEN Respond(reqs[r], 400, "exists")
       ELSE [reqs[r] EXCEPT !.pc = "r_create"]]
  /\ UNCHANGED tracked /\ UNCHANGED <<users, sessions, props, favs, now, nextPid>>

RegisterCreate(r) ==
  /\ reqs[r].pc = "r_create"
  /\ LET q == reqs[r]
         doc == NewUser(q.email, hashPassword(q.password), "", "manual", "", now)
     IN IF UserIndexAllows(users, NoUser, doc.email, doc.googleId)
        THEN /\ Len(users) < MaxUsers
             /\ users' = Append(users, doc)
             /\ reqs' = [reqs EXCEPT ![r] = Respond(q, 201, "created")]
        ELSE /\ users' = users
             /\ reqs' = [reqs EXCEPT ![r] =
                  [Respond(q, 500, "E11000") EXCEPT !.detail = "E11000 duplicate key error"]]
  /\ UNCHANGED tracked /\ UNCHANGED <<sessions, props, favs, now, nextPid>>

-----------------------------------------------------------------------------
(* POST /api/auth/login *)

StartLogin(r, s, e, p) ==
  /\ Free(r)
  /\ reqs' = [reqs EXCEPT ![r] =
       [ArriveAnon("login", "l_find", s) EXCEPT !.email = e, !.password = p]]
  /\ UNCHANGED tracked /\ UNCHANGED <<users, sessions, props, favs, now, nextPid>>

\* What the handler answers: <<status, tag, user>>
LoginOutcome(us, e, p) ==
  LET u == FindUserByEmail(us, e)
  IN IF u = NoUser \/ us[u].password = "" THEN <<401, "invalid", NoUser>>
     ELSE IF p = "" THEN <<500, "compare_error", NoUser>>
     ELSE IF ~comparePassword(p, us[u].password) THEN <<401, "invalid", NoUser>>
     ELSE <<200, "login", u>>

Login(r) ==
  /\ reqs[r].pc = "l_find"
  /\ LET q == reqs[r]
         o == LoginOutcome(users, q.email, q.password)
     IN /\ reqs' = [reqs EXCEPT ![r] =
             [Respond(q, o[1], o[2]) EXCEPT !.detail =
                IF o[1] = 500 THEN "data and hash arguments required" ELSE ""]]
        /\ sessions' = IF o[3] # NoUser
                       THEN [sessions EXCEPT ![q.sess] = o[3]]
                       ELSE sessions
  /\ UNCHANGED tracked /\ UNCHANGED <<users, props, favs, now, nextPid>>

-----------------------------------------------------------------------------
(* POST /api/auth/logout *)

\* A logout that answers and leaves the session record in the store
Logout_KeepsPrincipal(r, s) ==
  /\ Free(r)
  /\ sessions' = sessions
  /\ reqs' = [reqs EXCEPT ![r] = Respond(ArriveAnon("logout", "", s), 200, "logout")]
  /\ UNCHANGED tracked /\ UNCHANGED <<users, props, favs, now, nextPid>>

\* req.logout(() => req.session.destroy(() => { res.clearCookie(...); res.json(...) }))
Logout(r, s) ==
  /\ Free(r)
  /\ sessions' = [sessions EXCEPT ![s] = NoUser]
  /\ reqs' = [reqs EXCEPT ![r] = Respond(ArriveAnon("logout", "", s), 200, "logout")]
  /\ UNCHANGED tracked /\ UNCHANGED <<users, props, favs, now, nextPid>>

(* GET /api/auth/check *)

\* if (req.isAuthenticated() && req.user) res.json({ isAuthenticated: true, user })
\* else res.json({ isAuthenticated: false, user: null })
AuthCheck(r, s) ==
  /\ Free(r)
  /\ LET q == Arrive("authCheck", "", s)
     IN reqs' = [reqs EXCEPT ![r] =
          [Respond(q, 200, "check") EXCEPT !.isAuth = (q.who # NoUser)]]
  /\ UNCHANGED tracked /\ UNCHANGED <<users, sessions, props, favs, now, nextPid>>

-----------------------------------------------------------------------------
(* GoogleStrategy verify callback, then passport's req.login of the user  *)
(* handed to done()                                                        *)

StartGoogle(r, s, g, e, ph) ==
  /\ Free(r)
  /\ reqs' = [reqs EXCEPT ![r] =
       [ArriveAnon("google", "g_findId", s) EXCEPT !.gid = g, !.email = e, !.photo = ph]]
  /\ UNCHANGED tracked /\ UNCHANGED <<users, sessions, props, favs, now, nextPid>>

\* 1. let user = await User.findOne({ googleId: profile.id })
GoogleFindId(r) ==
  /\ reqs[r].pc = "g_findId"
  /\ LET u == FindUserByGoogleId(users, reqs[r].gid)
     IN reqs' = [reqs EXCEPT ![r] =
          IF u # NoUser
          THEN [reqs[r] EXCEPT !.pc = "g_saveId", !.found = u]
          ELSE [reqs[r] EXCEPT !.pc = "g_findEmail"]]
  /\ UNCHANGED tracked /\ UNCHANGED <<users, sessions, props, favs, now, nextPid>>

GoogleSaveId_NoUpdate(r) ==
  /\ reqs[r].pc = "g_saveId"
  /\ LET q == reqs[r]
     IN /\ users' = users
        /\ sessions' = [sessions EXCEPT ![q.sess] = q.found]
        /\ reqs' = [reqs EXCEPT ![r] = [Respond(q, 302, "byId") EXCEPT !.found = q.found]]
  /\ UNCHANGED tracked /\ UNCHANGED <<props, favs, now, nextPid>>

\* user.lastLogin = new Date(); user.avatar = photo; await user.save(); done(null, user)
GoogleSaveId(r) ==
  /\ reqs[r].pc = "g_saveId"
  /\ LET q == reqs[r]
     IN /\ users' = [users EXCEPT ![q.found].lastLogin = now,
                                  ![q.found].avatar = q.photo]
        /\ sessions' = [sessions EXCEPT ![q.sess] = q.found]
        /\ reqs' = [reqs EXCEPT ![r] = [Respond(q, 302, "byId") EXCEPT !.found = q.found]]
  /\ UNCHANGED tracked /\ UNCHANGED <<props, favs, now, nextPid>>

\* 2. const existingUser = await User.findOne({ email: profile.emails[0].value })
GoogleFindEmail(r) ==
  /\ reqs[r].pc = "g_findEmail"
  /\ LET u == FindUserByEmail(users, reqs[r].email)
     IN reqs' = [reqs EXCEPT ![r] =
          IF u # NoUser
          THEN [reqs[r] EXCEPT !.pc = "g_saveEmail", !.found = u]
          ELSE [reqs[r] EXCEPT !.pc = "g_create"]]
  /\ UNCHANGED tracked /\ UNCHANGED <<users, sessions, props, favs, now, nextPid>>

\* existingUser.googleId = profile.id; .avatar = photo; .provider = 'google';
\* await existingUser.save(); done(null, existingUser)
GoogleSaveEmail(r) ==
  /\ reqs[r].pc = "g_saveEmail"
  /\ LET q == reqs[r]
     IN IF UserIndexAllows(users, q.found, users[q.found].email, q.gid)
        THEN /\ users' = [users EXCEPT ![q.found].googleId = q.gid,
                                       ![q.found].avatar = q.photo,
                                       ![q.found].provider = "google"]
             /\ sessions' = [sessions EXCEPT ![q.sess] = q.found]
             /\ reqs' = [reqs EXCEPT ![r] =
                  [Respond(q, 302, "byEmail") EXCEPT !.found = q.found]]
        ELSE /\ UNCHANGED tracked /\ UNCHANGED <<users, sessions>>
             /\ reqs' = [reqs EXCEPT ![r] = Respond(q, 500, "E11000")]
  /\ UNCHANGED tracked /\ UNCHANGED <<props, favs, now, nextPid>>

\* 3. const newUser = await User.create({...}); done(null, newUser)
GoogleCreate(r) ==
  /\ reqs[r].pc = "g_create"
  /\ LET q == reqs[r]
         doc == NewUser(q.email, "", q.gid, "google", q.photo, now)
     IN IF UserIndexAllows(users, NoUser, doc.email, doc.googleId)
        THEN /\ Len(users) < MaxUsers
             /\ users' = Append(users, doc)
             /\ sessions' = [sessions EXCEPT ![q.sess] = Len(users) + 1]
             /\ reqs' = [reqs EXCEPT ![r] =
                  [Respond(q, 302, "created") EXCEPT !.found = Len(users) + 1]]
        ELSE /\ UNCHANGED tracked /\ UNCHANGED <<users, sessions>>
             /\ reqs' = [reqs EXCEPT ![r] = Respond(q, 500, "E11000")]
  /\ UNCHANGED tracked /\ UNCHANGED <<props, favs, now, nextPid>>

GoogleStep(r) ==
  \/ GoogleFindId(r)
  \/ GoogleSaveId(r)
  \/ GoogleFindEmail(r)
  \/ GoogleSaveEmail(r)
  \/ GoogleCreate(r)

-----------------------------------------------------------------------------

AuthSessions == {"s1"}

InitAuth ==
  /\ users = << >>
  /\ sessions = [s \in AuthSessions |-> NoUser]
  /\ props = << >>
  /\ favs = EmptyBag
  /\ reqs = [r \in ReqIds |-> Idle]
  /\ now = 0
  /\ nextPid = 1
  /\ InitTracked

NextAuth ==
  \E r \in ReqIds :
       \/ \E s \in DOMAIN sessions, name \in Names \cup {""},
             e \in EmailInputs \cup {""}, p \in Passwords \cup {""} :
             StartRegister(r, s, name, e, p)
       \/ RegisterFind(r)
       \/ RegisterCreate(r)
       \/ \E s \in DOMAIN sessions, e \in EmailInputs, p \in Passwords \cup {""} :
             StartLogin(r, s, e, p)
       \/ Login(r)
       \/ \E s \in DOMAIN sessions : Logout(r, s)

SpecAuth == InitAuth /\ [][NextAuth]_vars

\* The store after one earlier registration; the clock has moved on since.
InitGoogle ==
  /\ users = << NewUser("a@x.com", hashPassword("pw1"), "", "manual", "", 0) >>
  /\ sessions = [s \in AuthSessions |-> NoUser]
  /\ props = << >>
  /\ favs = EmptyBag
  /\ reqs = [r \in ReqIds |-> Idle]
  /\ now = 1
  /\ nextPid = 1
  /\ InitTracked

NextGoogle ==
  \E r \in ReqIds :
    \/ \E s \in DOMAIN sessions, g \in GoogleIds, e \in GoogleEmails, ph \in Photos :
          StartGoogle(r, s, g, e, ph)
    \/ GoogleStep(r)
    \/ \E s \in DOMAIN sessions, e \in {"A@X.com", "b@x.com"} :
          StartRegister(r, s, "Asha", e, "pw1")
    \/ RegisterFind(r)
    \/ RegisterCreate(r)

SpecGoogle == InitGoogle /\ [][NextGoogle]_vars

-----------------------------------------------------------------------------
(* Auth middleware *)

isAuthenticated_AlwaysNext(q) == "next"

\* isAuthenticated: next() when req.isAuthenticated(), else 401
isAuthenticated(q) ==
  IF q.who # NoUser THEN "next" ELSE "401"

isAdmin_AnyUser(q) == IF q.who # NoUser THEN "next" ELSE "403"

\* isAdmin: next() when req.user && req.user.role === 'admin', else 403
isAdmin(q) ==
  IF q.who # NoUser /\ users[q.who].role = "admin" THEN "next" ELSE "403"

\* A route mounted behind isAdmin alone; its handler answers 200
AdminRoute(r, s) ==
  /\ Free(r)
  /\ LET q == Arrive("admin", "", s)
     IN reqs' = [reqs EXCEPT ![r] =
          IF isAdmin(q) = "next"
          THEN Respond(q, 200, "handled")
          ELSE Respond(q, 403, "gate")]
  /\ UNCHANGED tracked /\ UNCHANGED <<users, sessions, props, favs, now, nextPid>>

-----------------------------------------------------------------------------
(* Favorite collection *)

\* Favorite documents of the pair (u, p), with their multiplicity
PairCount(fs, u, p) ==
  BagCardinality([f \in {g \in BagToSet(fs) : g.user = u /\ g.property = p}
                    |-> CopiesIn(f, fs)])

FavoriteIndexAllows_NoUnique(fs, u, p) == TRUE

\* favoriteSchema.index({ user: 1, property: 1 }, { unique: true })
FavoriteIndexAllows(fs, u, p) == PairCount(fs, u, p) = 0

NewFavorite(u, p, notes, t) ==
  [ user |-> u, property |-> p, notes |-> notes, addedAt |-> t ]

\* fs without the documents in D (every copy of them)
deleteMany(fs, D) ==
  [f \in BagToSet(fs) \ D |-> CopiesIn(f, fs)]

(* addFavorite *)

\* const property = await Property.findById(propertyId)
StartAddFavorite(r, s, pid, notes) ==
  /\ Free(r)
  /\ LET q == [Arrive("addFavorite", "f_findOne", s) EXCEPT !.pid = pid, !.notes = notes]
     IN reqs' = [reqs EXCEPT ![r] =
          IF isAuthenticated(q) # "next" THEN Respond(q, 401, "gate")
          ELSE IF pid = BadId THEN Respond(q, 500, "CastError")
          ELSE IF pid \notin DOMAIN props THEN Respond(q, 404, "noProperty")
          ELSE q]
  /\ UNCHANGED tracked /\ UNCHANGED <<users, sessions, props, favs, now, nextPid>>

AddFavoriteFindOne_Upsert(r) ==
  /\ reqs[r].pc = "f_findOne"
  /\ LET q == reqs[r]
         Hit == {f \in BagToSet(favs) : f.user = q.who /\ f.property = q.pid}
     IN IF PairCount(favs, q.who, q.pid) > 0
        THEN /\ favs' = deleteMany(favs, Hit)
                          (+) SetToBag({NewFavorite(q.who, q.pid, q.notes, now)})
             /\ reqs' = [reqs EXCEPT ![r] = Respond(q, 400, "exists")]
        ELSE /\ favs' = favs
             /\ reqs' = [reqs EXCEPT ![r].pc = "f_create"]
  /\ UNCHANGED tracked /\ UNCHANGED <<users, sessions, props, now, nextPid>>

\* const existingFavorite = await Favorite.findOne({ user, property })
AddFavoriteFindOne(r) ==
  /\ reqs[r].pc = "f_findOne"
  /\ reqs' = [reqs EXCEPT ![r] =
       IF PairCount(favs, reqs[r].who, reqs[r].pid) > 0
       THEN Respond(reqs[r], 400, "exists")
       ELSE [reqs[r] EXCEPT !.pc = "f_create"]]
  /\ UNCHANGED tracked /\ UNCHANGED <<users, sessions, props, favs, now, nextPid>>

\* const favorite = await Favorite.create({ user, property, notes })
AddFavoriteCreate(r) ==
  /\ reqs[r].pc = "f_create"
  /\ LET q == reqs[r]
     IN IF FavoriteIndexAllows(favs, q.who, q.pid)
        THEN /\ favs' = favs (+) SetToBag({NewFavorite(q.who, q.pid, q.notes, now)})
             /\ reqs' = [reqs EXCEPT ![r] = Respond(q, 201, "created")]
        ELSE /\ favs' = favs
             /\ reqs' = [reqs EXCEPT ![r] = Respond(q, 400, "E11000")]
  /\ UNCHANGED tracked /\ UNCHANGED <<users, sessions, props, now, nextPid>>

RemoveFavorite_ByProperty(r, s, pid) ==
  /\ Free(r)
  /\ LET q == Arrive("removeFavorite", "", s)
         Hit == {f \in BagToSet(favs) : f.property = pid}
     IN IF isAuthenticated(q) # "next"
        THEN /\ favs' = favs
             /\ reqs' = [reqs EXCEPT ![r] = Respond(q, 401, "gate")]
        ELSE IF PairCount(favs, q.who, pid) = 0
        THEN /\ favs' = favs
             /\ reqs' = [reqs EXCEPT ![r] = Respond(q, 404, "noFavorite")]
        ELSE /\ favs' = deleteMany(favs, Hit)
             /\ reqs' = [reqs EXCEPT ![r] = Respond(q, 200, "removed")]
  /\ UNCHANGED tracked /\ UNCHANGED <<users, sessions, props, now, nextPid>>

\* removeFavorite: await Favorite.findOneAndDelete({ user, property })
RemoveFavorite(r, s, pid) ==
  /\ Free(r)
  /\ LET q == Arrive("removeFavorite", "", s)
     IN IF isAuthenticated(q) # "next"
        THEN /\ favs' = favs
             /\ reqs' = [reqs EXCEPT ![r] = Respond(q, 401, "gate")]
        ELSE IF pid = BadId
        THEN /\ favs' = favs
             /\ reqs' = [reqs EXCEPT ![r] = Respond(q, 500, "CastError")]
        ELSE IF PairCount(favs, q.who, pid) = 0
        THEN /\ favs' = favs
             /\ reqs' = [reqs EXCEPT ![r] = Respond(q, 404, "noFavorite")]
        ELSE /\ \E f \in BagToSet(favs) :
                  /\ f.user = q.who /\ f.property = pid
                  /\ favs' = favs (-) SetToBag({f})
             /\ reqs' = [reqs EXCEPT ![r] = Respond(q, 200, "removed")]
  /\ UNCHANGED tracked /\ UNCHANGED <<users, sessions, props, now, nextPid>>

\* deleteMany({}): every user's favorites go
ClearAllFavorites_Everyone(r, s) ==
  /\ Free(r)
  /\ LET q == Arrive("clearAllFavorites", "", s)
     IN IF isAuthenticated(q) # "next"
        THEN /\ favs' = favs
             /\ reqs' = [reqs EXCEPT ![r] = Respond(q, 401, "gate")]
        ELSE /\ favs' = EmptyBag
             /\ reqs' = [reqs EXCEPT ![r] = Respond(q, 200, "cleared")]
  /\ UNCHANGED tracked /\ UNCHANGED <<users, sessions, props, now, nextPid>>

\* clearAllFavorites: await Favorite.deleteMany({ user: req.user._id })
ClearAllFavorites(r, s) ==
  /\ Free(r)
  /\ LET q == Arrive("clearAllFavorites", "", s)
         Mine == {f \in BagToSet(favs) : f.user = q.who}
     IN IF isAuthenticated(q) # "next"
        THEN /\ favs' = favs
             /\ reqs' = [reqs EXCEPT ![r] = Respond(q, 401, "gate")]
        ELSE /\ favs' = deleteMany(favs, Mine)
             /\ reqs' = [reqs EXCEPT ![r] = Respond(q, 200, "cleared")]
  /\ UNCHANGED tracked /\ UNCHANGED <<users, sessions, props, now, nextPid>>

\* getFavorites: const favorites = await Favorite.find({ user: req.user._id })...
\* res.json({ success: true, count: favorites.length, data: favorites })
GetFavorites(r, s) ==
  /\ Free(r)
  /\ LET q == Arrive("getFavorites", "", s)
         Mine == {f \in BagToSet(favs) : f.user = q.who}
     IN reqs' = [reqs EXCEPT ![r] =
          IF isAuthenticated(q) # "next" THEN Respond(q, 401, "gate")
          ELSE [Respond(q, 200, "favorites") EXCEPT
                  !.favorites = Mine, !.total = Cardinality(Mine)]]
  /\ UNCHANGED tracked /\ UNCHANGED <<users, sessions, props, favs, now, nextPid>>

\* checkFavorite: const favorite = await Favorite.findOne({ user, property });
\* res.json({ success: true, isFavorite: !!favorite })
CheckFavorite(r, s, pid) ==
  /\ Free(r)
  /\ LET q == Arrive("checkFavorite", "", s)
     IN reqs' = [reqs EXCEPT ![r] =
          IF isAuthenticated(q) # "next" THEN Respond(q, 401, "gate")
          ELSE IF pid = BadId THEN Respond(q, 500, "CastError")
          ELSE [Respond(q, 200, "checked") EXCEPT
                  !.isFavorite = PairCount(favs, q.who, pid) > 0]]
  /\ UNCHANGED tracked /\ UNCHANGED <<users, sessions, props, favs, now, nextPid>>

-----------------------------------------------------------------------------
(* Property controller *)

\* The spread alone: the owner key of the body, when it has one, is stored
propertyData_BodyOwner(who, owner, title) ==
  [ owner |-> IF owner = Keep THEN who ELSE owner, title |-> title, views |-> 0 ]

\* const propertyData = { ...req.body }; propertyData.owner = req.user._id;
\* who: req.user._id; owner, title: the body's keys (Keep: no owner key)
propertyData(who, owner, title) ==
  [ owner |-> who, title |-> title, views |-> 0 ]

\* propertySchema: title and price are required (price: Absent when not supplied)
PropertyValid(title, price) == title # "" /\ price # Absent

\* createProperty behind isAuthenticated: await Property.create(propertyData);
\* 201, or 400 when the document fails validation.  The finished request
\* keeps the owner key of its body.
CreatePropertyBody(r, s, title, price, owner) ==
  /\ Free(r)
  /\ LET q == Arrive("createProperty", "", s)
     IN IF isAuthenticated(q) # "next"
        THEN /\ UNCHANGED tracked /\ UNCHANGED <<props, nextPid>>
             /\ reqs' = [reqs EXCEPT ![r] = Respond(q, 401, "gate")]
        ELSE IF ~PropertyValid(title, price)
        THEN /\ UNCHANGED tracked /\ UNCHANGED <<props, nextPid>>
             /\ reqs' = [reqs EXCEPT ![r] = Respond(q, 400, "ValidationError")]
        ELSE /\ nextPid <= MaxProps
             /\ props' = props @@ (nextPid :> propertyData(q.who, owner, title))
             /\ nextPid' = nextPid + 1
             /\ reqs' = [reqs EXCEPT ![r] =
                  [Respond(q, 201, "created") EXCEPT !.owner = owner]]
  /\ UNCHANGED tracked /\ UNCHANGED <<users, sessions, favs, now>>

\* createProperty of a body that has a price and no owner key
CreateProperty(r, s, title) == CreatePropertyBody(r, s, title, 1, Keep)

\* property.owner.toString() !== req.user._id.toString() && req.user.role !== 'admin'
\*   "yes"   the check lets the request through
\*   "no"    403
\*   "throw" owner is null: property.owner.toString() raises a TypeError
MayChange(doc, who) ==
  IF doc.owner = NoOwner THEN "throw"
  ELSE IF doc.owner # who /\ users[who].role # "admin" THEN "no"
  ELSE "yes"

\* The first await of updateProperty / deleteProperty and the ownership check
OwnerGate(q, pid, next) ==
  IF isAuthenticated(q) # "next" THEN Respond(q, 401, "gate")
  ELSE IF pid = BadId THEN Respond(q, 400, "CastError")
  ELSE IF pid \notin DOMAIN props THEN Respond(q, 404, "noProperty")
  ELSE IF MayChange(props[pid], q.who) = "throw" THEN Respond(q, 500, "TypeError")
  ELSE IF MayChange(props[pid], q.who) = "no" THEN Respond(q, 403, "forbidden")
  ELSE next

\* updateProperty: let property = await Property.findById(req.params.id); ...
StartUpdateProperty(r, s, pid, owner, title) ==
  /\ Free(r)
  /\ LET q == Arrive("updateProperty", "u_write", s)
     IN reqs' = [reqs EXCEPT ![r] =
          OwnerGate(q, pid, [q EXCEPT !.pid = pid, !.owner = owner, !.title = title])]
  /\ UNCHANGED tracked /\ UNCHANGED <<users, sessions, props, favs, now, nextPid>>

\* The document after $set of the body's keys
ApplyBody(doc, owner, title) ==
  [ owner |-> IF owner = Keep THEN doc.owner ELSE owner,
    title |-> IF title = "" THEN doc.title ELSE title,
    views |-> doc.views ]

\* property = await Property.findByIdAndUpdate(id, req.body, { new: true, ... })
UpdatePropertyWrite(r) ==
  /\ reqs[r].pc = "u_write"
  /\ LET q == reqs[r]
     IN IF q.pid \in DOMAIN props
        THEN /\ props' = [props EXCEPT ![q.pid] = ApplyBody(@, q.owner, q.title)]
             /\ reqs' = [reqs EXCEPT ![r] = Respond(q, 200, "updated")]
        ELSE /\ props' = props
             /\ reqs' = [reqs EXCEPT ![r] = Respond(q, 200, "updatedNull")]
  /\ UNCHANGED tracked /\ UNCHANGED <<users, sessions, favs, now, nextPid>>

\* deleteProperty: const property = await Property.findById(req.params.id); ...
StartDeleteProperty(r, s, pid) ==
  /\ Free(r)
  /\ LET q == Arrive("deleteProperty", "d_write", s)
     IN reqs' = [reqs EXCEPT ![r] = OwnerGate(q, pid, [q EXCEPT !.pid = pid])]
  /\ UNCHANGED tracked /\ UNCHANGED <<users, sessions, props, favs, now, nextPid>>

\* await Property.findByIdAndDelete(req.params.id)
DeletePropertyWrite(r) ==
  /\ reqs[r].pc = "d_write"
  /\ props' = [p \in DOMAIN props \ {reqs[r].pid} |-> props[p]]
  /\ reqs' = [reqs EXCEPT ![r] = Respond(reqs[r], 200, "deleted")]
  /\ UNCHANGED tracked /\ UNCHANGED <<users, sessions, favs, now, nextPid>>

-----------------------------------------------------------------------------

PropIds == 1..MaxProps

UpdateBodies ==
  { [owner |-> Keep,    title |-> "t2"],     \* { title: 't2' }
    [owner |-> NoOwner, title |-> ""],       \* { owner: null }
    [owner |-> 3,       title |-> ""] }      \* { owner: <_id of user 3> }

\* Three registered users; 1 is the admin.
SeededUsers ==
  << [NewUser("admin@x.com", hashPassword("pw1"), "", "manual", "", 0)
        EXCEPT !.role = "admin"],
     NewUser("a@x.com", hashPassword("pw1"), "", "manual", "", 0),
     NewUser("b@x.com", hashPassword("pw2"), "", "manual", "", 0) >>

\* Users 2 and 3 are logged in on a session each.
Init ==
  /\ users = SeededUsers
  /\ sessions = [s \in {"s2", "s3"} |-> IF s = "s2" THEN 2 ELSE 3]
  /\ props = << >>
  /\ favs = EmptyBag
  /\ reqs = [r \in ReqIds |-> Idle]
  /\ now = 1
  /\ nextPid = 1
  /\ InitTracked

\* Favorites next to property creation and deletion
Next ==
  \E r \in ReqIds :
    \/ \E s \in DOMAIN sessions, pid \in PropIds, n \in NoteInputs :
         StartAddFavorite(r, s, pid, n)
    \/ AddFavoriteFindOne(r)
    \/ AddFavoriteCreate(r)
    \/ \E s \in DOMAIN sessions, pid \in PropIds : RemoveFavorite(r, s, pid)
    \/ \E s \in DOMAIN sessions : ClearAllFavorites(r, s)
    \/ CreateProperty(r, "s2", "t1")
    \/ \E pid \in PropIds : StartDeleteProperty(r, "s2", pid)
    \/ DeletePropertyWrite(r)

Spec == Init /\ [][Next]_vars

\* Users 2 and 3 are logged in on a session each; s0 never logged in.
InitFav ==
  /\ users = SeededUsers
  /\ sessions = [s \in {"s0", "s2", "s3"} |->
                   IF s = "s2" THEN 2 ELSE IF s = "s3" THEN 3 ELSE NoUser]
  /\ props = << >>
  /\ favs = EmptyBag
  /\ reqs = [r \in ReqIds |-> Idle]
  /\ now = 1
  /\ nextPid = 1
  /\ InitTracked

\* The whole favorite controller, two users side by side
NextFav ==
  \E r \in ReqIds :
    \/ \E s \in DOMAIN sessions, pid \in PropIds : StartAddFavorite(r, s, pid, "n1")
    \/ AddFavoriteFindOne(r)
    \/ AddFavoriteCreate(r)
    \/ \E s \in DOMAIN sessions, pid \in PropIds : RemoveFavorite(r, s, pid)
    \/ \E s \in DOMAIN sessions : ClearAllFavorites(r, s)
    \/ \E s \in DOMAIN sessions : GetFavorites(r, s)
    \/ \E s \in DOMAIN sessions, pid \in PropIds \cup {BadId} : CheckFavorite(r, s, pid)
    \/ CreateProperty(r, "s2", "t1")

SpecFav == InitFav /\ [][NextFav]_vars

\* One registered user, two browsers that are not logged in.
InitSession ==
  /\ users = << NewUser("a@x.com", hashPassword("pw1"), "", "manual", "", 0) >>
  /\ sessions = [s \in {"s1", "s2"} |-> NoUser]
  /\ props = << >>
  /\ favs = EmptyBag
  /\ reqs = [r \in ReqIds |-> Idle]
  /\ now = 1
  /\ nextPid = 1
  /\ InitTracked

\* Login by password or Google, logout, and the routes that read the principal
NextSession ==
  \E r \in ReqIds :
    \/ \E s \in DOMAIN sessions, p \in Passwords : StartLogin(r, s, "a@x.com", p)
    \/ Login(r)
    \/ \E s \in DOMAIN sessions, e \in GoogleEmails : StartGoogle(r, s, "g1", e, "pic1")
    \/ GoogleStep(r)
    \/ \E s \in DOMAIN sessions : Logout(r, s)
    \/ \E s \in DOMAIN sessions : AuthCheck(r, s)
    \/ \E s \in DOMAIN sessions : ClearAllFavorites(r, s)

SpecSession == InitSession /\ [][NextSession]_vars

\* Every user is logged in on a session of its own; s0 never logged in.
InitProp ==
  /\ users = SeededUsers
  /\ sessions = [s \in {"s0", "s1", "s2", "s3"} |->
                   IF s = "s1" THEN 1 ELSE IF s = "s2" THEN 2
                   ELSE IF s = "s3" THEN 3 ELSE NoUser]
  /\ props = << >>
  /\ favs = EmptyBag
  /\ reqs = [r \in ReqIds |-> Idle]
  /\ now = 1
  /\ nextPid = 1
  /\ InitTracked

\* The property controller behind the gates
NextProp ==
  \E r \in ReqIds :
    \/ \E s \in DOMAIN sessions : AdminRoute(r, s)
    \/ \E s \in DOMAIN sessions, t \in {"t1", ""} : CreateProperty(r, s, t)
    \/ \E s \in DOMAIN sessions, pid \in PropIds, b \in UpdateBodies :
         StartUpdateProperty(r, s, pid, b.owner, b.title)
    \/ UpdatePropertyWrite(r)
    \/ \E s \in DOMAIN sessions, pid \in PropIds : StartDeleteProperty(r, s, pid)
    \/ DeletePropertyWrite(r)

SpecProp == InitProp /\ [][NextProp]_vars

\* Owner keys a create body may carry: none, null, another user's _id
OwnerInputs == {Keep, NoOwner, 3}

\* price of a create body: not supplied, or a number
PriceInputs == {Absent, 1}

\* Users 2 and 3 are logged in on a session each; s0 never logged in.
InitCreate ==
  /\ users = SeededUsers
  /\ sessions = [s \in {"s0", "s2", "s3"} |->
                   IF s = "s2" THEN 2 ELSE IF s = "s3" THEN 3 ELSE NoUser]
  /\ props = << >>
  /\ favs = EmptyBag
  /\ reqs = [r \in ReqIds |-> Idle]
  /\ now = 1
  /\ nextPid = 1
  /\ InitTracked

\* Property creation from every body, then update and delete of the result
NextCreate ==
  \E r \in ReqIds :
    \/ \E s \in DOMAIN sessions, t \in {"t1", ""}, p \in PriceInputs, o \in OwnerInputs :
         CreatePropertyBody(r, s, t, p, o)
    \/ \E s \in DOMAIN sessions, pid \in PropIds : StartUpdateProperty(r, s, pid, Keep, "t2")
    \/ UpdatePropertyWrite(r)
    \/ \E s \in DOMAIN sessions, pid \in PropIds : StartDeleteProperty(r, s, pid)
    \/ DeletePropertyWrite(r)

SpecCreate == InitCreate /\ [][NextCreate]_vars

-----------------------------------------------------------------------------
(* getProperty, and the handlers that take a record identifier *)

MaxViews == 2     \* views a property collects

\* A well-formed id that matches no property
MissingId == MaxProps + 1

\* req.params.id / req.body.propertyId: an existing id, an unknown one, a malformed one
IdInputs == PropIds \cup {MissingId, BadId}

\* getProperty: const property = await Property.findById(req.params.id).populate(...)
\* fail: the read fails in the database
StartGetProperty(r, s, pid, fail) ==
  /\ Free(r)
  /\ pid \in DOMAIN props => props[pid].views < MaxViews
  /\ LET q == [ArriveAnon("getProperty", "g_inc", s) EXCEPT !.pid = pid]
     IN reqs' = [reqs EXCEPT ![r] =
          IF pid = BadId THEN Respond(q, 400, "CastError")
          ELSE IF fail THEN Respond(q, 500, "persistence")
          ELSE IF pid \notin DOMAIN props THEN Respond(q, 404, "noProperty")
          ELSE q]
  /\ UNCHANGED tracked /\ UNCHANGED <<users, sessions, props, favs, now, nextPid>>

GetPropertyInc_Propagate(r, fail) ==
  /\ reqs[r].pc = "g_inc"
  /\ LET q == reqs[r]
     IN IF fail
        THEN /\ props' = props
             /\ reqs' = [reqs EXCEPT ![r] = Respond(q, 500, "persistence")]
        ELSE IF q.pid \in DOMAIN props
        THEN /\ props' = [props EXCEPT ![q.pid].views = @ + 1]
             /\ reqs' = [reqs EXCEPT ![r] = [Respond(q, 200, "viewed") EXCEPT !.pid = q.pid]]
        ELSE /\ props' = props
             /\ reqs' = [reqs EXCEPT ![r] = [Respond(q, 200, "viewGone") EXCEPT !.pid = q.pid]]
  /\ UNCHANGED tracked /\ UNCHANGED <<users, sessions, favs, now, nextPid>>

\* try { await Property.findByIdAndUpdate(id, { $inc: { views: 1 } }) } catch { log }
\* res.json({ success: true, data: property })
\* fail: the update fails in the database
GetPropertyInc(r, fail) ==
  /\ reqs[r].pc = "g_inc"
  /\ LET q == reqs[r]
     IN IF fail
        THEN /\ props' = props
             /\ reqs' = [reqs EXCEPT ![r] = [Respond(q, 200, "viewFailed") EXCEPT !.pid = q.pid]]
        ELSE IF q.pid \in DOMAIN props
        THEN /\ props' = [props EXCEPT ![q.pid].views = @ + 1]
             /\ reqs' = [reqs EXCEPT ![r] = [Respond(q, 200, "viewed") EXCEPT !.pid = q.pid]]
        ELSE /\ props' = props
             /\ reqs' = [reqs EXCEPT ![r] = [Respond(q, 200, "viewGone") EXCEPT !.pid = q.pid]]
  /\ UNCHANGED tracked /\ UNCHANGED <<users, sessions, favs, now, nextPid>>

InitIds ==
  /\ users = SeededUsers
  /\ sessions = [s \in {"s2"} |-> 2]
  /\ props = << >>
  /\ favs = EmptyBag
  /\ reqs = [r \in ReqIds |-> Idle]
  /\ now = 1
  /\ nextPid = 1
  /\ InitTracked

\* One signed-in user and every handler that takes an identifier
NextIds ==
  \E r \in ReqIds :
    \/ CreateProperty(r, "s2", "t1")
    \/ \E pid \in IdInputs, fail \in BOOLEAN : StartGetProperty(r, "s2", pid, fail)
    \/ \E fail \in BOOLEAN : GetPropertyInc(r, fail)
    \/ \E pid \in IdInputs : StartUpdateProperty(r, "s2", pid, Keep, "t2")
    \/ UpdatePropertyWrite(r)
    \/ \E pid \in IdInputs : StartDeleteProperty(r, "s2", pid)
    \/ DeletePropertyWrite(r)
    \/ \E pid \in IdInputs : StartAddFavorite(r, "s2", pid, "n1")
    \/ AddFavoriteFindOne(r)
    \/ AddFavoriteCreate(r)
    \/ \E pid \in IdInputs : RemoveFavorite(r, "s2", pid)

SpecIds == InitIds /\ [][NextIds]_vars

\* Fetches of a property next to its creation and deletion
NextFetch ==
  \E r \in ReqIds :
    \/ CreateProperty(r, "s2", "t1")
    \/ \E pid \in IdInputs, fail \in BOOLEAN : StartGetProperty(r, "s2", pid, fail)
    \/ \E fail \in BOOLEAN : GetPropertyInc(r, fail)
    \/ \E pid \in IdInputs : StartDeleteProperty(r, "s2", pid)
    \/ DeletePropertyWrite(r)

SpecFetch == InitIds /\ [][NextFetch]_vars

-----------------------------------------------------------------------------
(* POST /api/contact, and the handlers when the database fails *)

MaxContacts == 2  \* Contact documents the store may hold

\* error.message of a failed database call
DbErrors == {"ECONNRESET", "ETIMEDOUT"}

\* A 500 response whose body carries error.message
RespondDetail(q, code, tag, detail) == [Respond(q, code, tag) EXCEPT !.detail = detail]

\* contactSchema: name, email and message are required
ContactValid(name, email, message) == name # "" /\ email # "" /\ message # ""

\* try { if (Contact) await Contact.create(req.body); res.json({ success: true }) }
\* catch (e) { res.status(500).json({ error: e.message }) }
\* err: error.message of the failing insert, "" when the database works
PostContact(r, s, name, email, message, err) ==
  /\ Free(r)
  /\ LET q == ArriveAnon("contact", "", s)
     IN IF ~ContactValid(name, email, message)
        THEN /\ contacts' = contacts
             /\ reqs' = [reqs EXCEPT ![r] =
                  RespondDetail(q, 500, "ValidationError", "Contact validation failed")]
        ELSE IF err # ""
        THEN /\ contacts' = contacts
             /\ reqs' = [reqs EXCEPT ![r] = RespondDetail(q, 500, "persistence", err)]
        ELSE /\ Len(contacts) < MaxContacts
             /\ contacts' = Append(contacts,
                  [name |-> name, email |-> email, message |-> message, createdAt |-> now])
             /\ reqs' = [reqs EXCEPT ![r] = Respond(q, 200, "sent")]
  /\ UNCHANGED <<users, sessions, props, favs, now, nextPid, interactions, sessionIds>>

\* register: User.findOne or User.create rejects; catch answers error.message
RegisterFails(r, err) ==
  /\ reqs[r].pc \in {"r_find", "r_create"}
  /\ reqs' = [reqs EXCEPT ![r] = RespondDetail(reqs[r], 500, "persistence", err)]
  /\ UNCHANGED tracked /\ UNCHANGED <<users, sessions, props, favs, now, nextPid>>

\* login: User.findOne rejects; catch answers error.message
LoginFails(r, err) ==
  /\ reqs[r].pc = "l_find"
  /\ reqs' = [reqs EXCEPT ![r] = RespondDetail(reqs[r], 500, "persistence", err)]
  /\ UNCHANGED tracked /\ UNCHANGED <<users, sessions, props, favs, now, nextPid>>

\* getProperties: Property.find rejects; catch answers 'Error fetching properties'
GetPropertiesFails(r, err) ==
  /\ Free(r)
  /\ reqs' = [reqs EXCEPT ![r] =
       Respond([Idle EXCEPT !.op = "getProperties"], 500, "persistence")]
  /\ UNCHANGED tracked /\ UNCHANGED <<users, sessions, props, favs, now, nextPid>>

\* The auth routes, the contact form and the listing over a database that may fail
NextFail ==
  \E r \in ReqIds :
    \/ StartRegister(r, "s1", "Asha", "a@x.com", "pw1")
    \/ RegisterFind(r)
    \/ RegisterCreate(r)
    \/ \E err \in DbErrors : RegisterFails(r, err)
    \/ \E p \in {"pw1", ""} : StartLogin(r, "s1", "a@x.com", p)
    \/ Login(r)
    \/ \E err \in DbErrors : LoginFails(r, err)
    \/ \E name \in Names \cup {""}, email \in {"a@x.com", ""},
          message \in {"hi", ""}, err \in DbErrors \cup {""} :
          PostContact(r, "s1", name, email, message, err)
    \/ \E err \in DbErrors : GetPropertiesFails(r, err)

SpecFail == InitAuth /\ [][NextFail]_vars

-----------------------------------------------------------------------------
(* Tracking middleware: generateSessionId, trackInteraction, trackPageView *)

MaxClock == 3         \* values Date.now() takes
MaxInteractions == 2  \* interaction records written before new page views stop

NoSid == << >>        \* req.session.sessionId is undefined

\* md5 of `${userAgent}-${ip}-${Date.now()}`: a function of the three inputs
generateSessionId(userAgent, ip, timestamp) == <<userAgent, ip, timestamp>>

\* req.headers['user-agent'] and req.ip of the browser behind a session cookie
UserAgent(s) == "ua-" \o s
Ip(s) == "ip-" \o s

\* The clock advances
Tick ==
  /\ now < MaxClock
  /\ now' = now + 1
  /\ UNCHANGED tracked /\ UNCHANGED <<users, sessions, props, favs, reqs, nextPid>>

\* trackPageView(pageName)(req, res, next) up to the await of interaction.save().
\* The session middleware has loaded req.session from the store for this request.
\* throws: reading req.session or the address raises inside trackInteraction's try
StartPageView(r, s, throws) ==
  /\ Free(r)
  /\ Len(interactions) < MaxInteractions
  /\ LET q == [Arrive("pageView", "t_save", s) EXCEPT !.sid = sessionIds[s]]
     IN reqs' = [reqs EXCEPT ![r] =
          IF q.who = NoUser
          THEN [Respond(q, 200, "guest") EXCEPT !.nexts = 1]
          ELSE IF throws
          THEN [Respond(q, 200, "trackThrew") EXCEPT !.nexts = 1]
          ELSE [q EXCEPT !.sid = IF q.sid # NoSid THEN q.sid
                                  ELSE generateSessionId(UserAgent(s), Ip(s), now)]]
  /\ UNCHANGED tracked /\ UNCHANGED <<users, sessions, props, favs, now, nextPid>>

TrackSave_Throws(r, fail) ==
  /\ reqs[r].pc = "t_save"
  /\ LET q == reqs[r]
     IN IF fail
        THEN /\ interactions' = interactions
             /\ sessionIds' = sessionIds
             /\ reqs' = [reqs EXCEPT ![r] = Respond(q, 500, "trackFailed")]
        ELSE /\ interactions' = Append(interactions,
                  [user |-> q.who, sessionId |-> q.sid, action |-> "page_view", sess |-> q.sess])
             /\ sessionIds' = [sessionIds EXCEPT ![q.sess] = q.sid]
             /\ reqs' = [reqs EXCEPT ![r] = [Respond(q, 200, "tracked") EXCEPT !.nexts = 1]]
  /\ UNCHANGED <<users, sessions, props, favs, now, nextPid, contacts>>

\* await interaction.save() inside try / catch, then next(); the session
\* middleware writes the request's req.session back when the response ends.
\* fail: the save is rejected
TrackSave(r, fail) ==
  /\ reqs[r].pc = "t_save"
  /\ LET q == reqs[r]
     IN /\ interactions' =
             IF fail THEN interactions
             ELSE Append(interactions,
                    [user |-> q.who, sessionId |-> q.sid, action |-> "page_view", sess |-> q.sess])
        /\ sessionIds' = [sessionIds EXCEPT ![q.sess] = q.sid]
        /\ reqs' = [reqs EXCEPT ![r] =
             [Respond(q, 200, IF fail THEN "trackFailed" ELSE "tracked") EXCEPT !.nexts = 1]]
  /\ UNCHANGED <<users, sessions, props, favs, now, nextPid, contacts>>

InitTrack ==
  /\ users = SeededUsers
  /\ sessions = [s \in {"s0", "s2"} |-> IF s = "s2" THEN 2 ELSE NoUser]
  /\ props = << >>
  /\ favs = EmptyBag
  /\ reqs = [r \in ReqIds |-> Idle]
  /\ now = 1
  /\ nextPid = 1
  /\ contacts = << >>
  /\ interactions = << >>
  /\ sessionIds = [s \in {"s0", "s2"} |-> NoSid]

\* Page views of a guest and of a signed-in browser, two requests at a time
NextTrack ==
  \/ Tick
  \/ \E r \in ReqIds :
       \/ \E s \in DOMAIN sessions, throws \in BOOLEAN : StartPageView(r, s, throws)
       \/ \E fail \in BOOLEAN : TrackSave(r, fail)

SpecTrack == InitTrack /\ [][NextTrack]_vars

-----------------------------------------------------------------------------
(* Property listing: getProperties, getFeaturedProperties, GET /api/properties *)

MaxListed == 2    \* Property documents ever created in the listing store

CrorePerUnit == 10000000

\* parseInt of a decimal string: the whole part, truncated toward zero
parseInt(x) == IF x >= 0 THEN x \div Tenth ELSE 0 - ((0 - x) \div Tenth)

Max(a, b) == IF a >= b THEN a ELSE b
Min(a, b) == IF a <= b THEN a ELSE b

\* { $regex: term, $options: 'i' } on a text, at the granularity of words
Lower(w) ==
  CASE w = "Villa" -> "villa"
    [] w = "Pune"  -> "pune"
    [] OTHER       -> w
Regex(term, text) == \E i \in 1..Len(text) : Lower(text[i]) = Lower(term)

\* req.body of createProperty, as far as the listing reads it.
\* area is a Number and may be fractional: it is held in tenths.
ListingBodies ==
  { [ title |-> <<"Lake", "Villa">>, description |-> << >>, location |-> << >>,
      city |-> <<"Pune">>, propertyType |-> "villa", price |-> 10000000,
      bedrooms |-> 3, area |-> 1000, furnishing |-> "furnished",
      possession |-> "ready", amenities |-> {"pool"}, isFeatured |-> TRUE ],
    [ title |-> <<"City", "Flat">>, description |-> <<"near", "villa">>,
      location |-> << >>, city |-> <<"Delhi">>, propertyType |-> "flat",
      price |-> 20000000, bedrooms |-> 2, area |-> 1005, furnishing |-> "",
      possession |-> "", amenities |-> {"gym", "lift"}, isFeatured |-> FALSE ],
    [ title |-> <<"Plot">>, description |-> << >>, location |-> <<"pune">>,
      city |-> << >>, propertyType |-> "flat", price |-> 10000000,
      bedrooms |-> 1, area |-> 1010, furnishing |-> "furnished",
      possession |-> "", amenities |-> {}, isFeatured |-> TRUE ] }

Statuses == {"active", "sold"}

\* The document Property.create stores: status defaults to 'active'
NewListing(body, t) ==
  [ title |-> body.title, description |-> body.description,
    location |-> body.location, city |-> body.city,
    propertyType |-> body.propertyType, price |-> body.price,
    bedrooms |-> body.bedrooms, area |-> body.area,
    furnishing |-> body.furnishing, possession |-> body.possession,
    amenities |-> body.amenities, isFeatured |-> body.isFeatured,
    status |-> "active", createdAt |-> t ]

\* One filter parameter supplied
OneParam ==
  { [NoFilter EXCEPT !.search = "villa"],
    [NoFilter EXCEPT !.location = "pune"],
    [NoFilter EXCEPT !.propertyType = "flat"],
    [NoFilter EXCEPT !.minPrice = 10],
    [NoFilter EXCEPT !.maxPrice = 10],
    [NoFilter EXCEPT !.bedrooms = 20],
    [NoFilter EXCEPT !.furnishing = "furnished"],
    [NoFilter EXCEPT !.possession = "ready"],
    [NoFilter EXCEPT !.amenities = {"pool", "gym"}],
    [NoFilter EXCEPT !.minArea = 1005],
    [NoFilter EXCEPT !.maxArea = 1005] }

Both(a, b) ==
  [f \in DOMAIN NoFilter |-> IF a[f] # NoFilter[f] THEN a[f] ELSE b[f]]

\* No filter, one filter parameter, or two of them together
FilterQueries == {NoFilter} \cup {Both(a, b) : a \in OneParam, b \in OneParam}

\* let query = { status: 'active' }
IsActive_Any(doc) == TRUE
IsActive(doc) == doc.status = "active"

\* The MongoDB filter built from req.query, applied to one document
Matches(doc, q) ==
  /\ IsActive(doc)
  /\ q.search # "" =>
       \/ Regex(q.search, doc.title)
       \/ Regex(q.search, doc.description)
       \/ Regex(q.search, doc.location)
  /\ q.location # "" => Regex(q.location, doc.city)
  /\ q.propertyType # "" => doc.propertyType = q.propertyType
  /\ q.minPrice # Absent => doc.price * Tenth >= q.minPrice * CrorePerUnit
  /\ q.maxPrice # Absent => doc.price * Tenth <= q.maxPrice * CrorePerUnit
  /\ q.bedrooms # Absent => doc.bedrooms >= parseInt(q.bedrooms)
  /\ q.furnishing # "" => doc.furnishing = q.furnishing
  /\ q.possession # "" => doc.possession = q.possession
  /\ q.minArea # Absent => doc.area >= parseInt(q.minArea) * Tenth
  /\ q.maxArea # Absent => doc.area <= parseInt(q.maxArea) * Tenth
  /\ q.amenities # {} => doc.amenities \cap q.amenities # {}

\* _ids of the documents a filter selects
Find(store, q) == {id \in DOMAIN store : Matches(store[id], q)}

SortKey(doc, sort) == IF sort = "price" THEN doc.price ELSE doc.createdAt

\* .sort(sortObj): every order of ids that is monotone in the sort key.
\* MongoDB returns documents with equal keys in any order.
SortedOrders(store, ids, sort, order) ==
  { s \in [1..Cardinality(ids) -> ids] :
      /\ \A i, j \in DOMAIN s : i # j => s[i] # s[j]
      /\ \A i, j \in DOMAIN s : i < j =>
           IF order = "desc"
           THEN SortKey(store[s[i]], sort) >= SortKey(store[s[j]], sort)
           ELSE SortKey(store[s[i]], sort) <= SortKey(store[s[j]], sort) }

\* .skip(skip).limit(perPage)
Slice(s, skip, perPage) == SubSeq(s, skip + 1, Min(Len(s), skip + perPage))

\* Math.ceil(total / perPage)
Ceil(total, perPage) == (total + perPage - 1) \div perPage

\* utils getPagination(page, limit)
getPagination(page, limit) ==
  LET currentPage == Max(1, parseInt(page))
      perPage     == Min(50, Max(1, parseInt(limit)))
  IN [ currentPage |-> currentPage, perPage |-> perPage,
       skip |-> (currentPage - 1) * perPage ]

\* The response of a request that keeps what the request read and computed
RespondWith(q, code, tag) == [q EXCEPT !.pc = "done", !.status = code, !.tag = tag]

\* getProperties up to and including  await Property.find(query)...limit(perPage)
GetPropertiesFind(r, q, page, limit, sort, order) ==
  /\ Free(r)
  /\ LET currentPage == parseInt(page)
         perPage     == parseInt(limit)
         skip        == (currentPage - 1) * perPage
         arrived     == [Idle EXCEPT !.op = "getProperties", !.qry = q,
                           !.page = currentPage, !.limit = perPage,
                           !.skip = skip, !.sort = sort, !.order = order]
     IN IF skip < 0
        THEN reqs' = [reqs EXCEPT ![r] = RespondWith(arrived, 500, "skipNegative")]
        ELSE \E s \in SortedOrders(props, Find(props, q), sort, order) :
               reqs' = [reqs EXCEPT ![r] =
                 [arrived EXCEPT !.pc = "l_count", !.data = Slice(s, skip, perPage)]]
  /\ UNCHANGED tracked /\ UNCHANGED <<users, sessions, props, favs, now, nextPid>>

\* const total = await Property.countDocuments(query); res.json(...)
GetPropertiesCount(r) ==
  /\ reqs[r].pc = "l_count"
  /\ LET q     == reqs[r]
         total == Cardinality(Find(props, q.qry))
     IN reqs' = [reqs EXCEPT ![r] =
          RespondWith([q EXCEPT !.total = total,
                                !.totalPages = Ceil(total, q.limit)], 200, "listed")]
  /\ UNCHANGED tracked /\ UNCHANGED <<users, sessions, props, favs, now, nextPid>>

FeaturedLimit == 8
ServerLimit == 20

\* getFeaturedProperties: find({status:'active', isFeatured:true}).sort({createdAt:-1}).limit(8)
GetFeaturedProperties(r) ==
  /\ Free(r)
  /\ LET ids == {id \in DOMAIN props : IsActive(props[id]) /\ props[id].isFeatured}
     IN \E s \in SortedOrders(props, ids, "createdAt", "desc") :
          reqs' = [reqs EXCEPT ![r] =
            RespondWith([Idle EXCEPT !.op = "getFeaturedProperties",
                                     !.data = Slice(s, 0, FeaturedLimit)], 200, "listed")]
  /\ UNCHANGED tracked /\ UNCHANGED <<users, sessions, props, favs, now, nextPid>>

\* server.js GET /api/properties: Property.find({ status: 'active' }).limit(20)
ServerProperties(r) ==
  /\ Free(r)
  /\ LET ids == {id \in DOMAIN props : IsActive(props[id])}
     IN \E s \in SortedOrders(props, ids, "createdAt", "asc") :
          reqs' = [reqs EXCEPT ![r] =
            RespondWith([Idle EXCEPT !.op = "serverProperties",
                                     !.data = Slice(s, 0, ServerLimit)], 200, "listed")]
  /\ UNCHANGED tracked /\ UNCHANGED <<users, sessions, props, favs, now, nextPid>>

\* createProperty: await Property.create(propertyData)
ListingCreate(body) ==
  /\ nextPid <= MaxListed
  /\ props' = props @@ (nextPid :> NewListing(body, now))
  /\ nextPid' = nextPid + 1
  /\ now' = now + 1
  /\ UNCHANGED tracked /\ UNCHANGED <<users, sessions, favs, reqs>>

\* updateProperty: await Property.findByIdAndUpdate(id, req.body) with body { status }
ListingSetStatus(pid, st) ==
  /\ pid \in DOMAIN props
  /\ props[pid].status # st
  /\ props' = [props EXCEPT ![pid].status = st]
  /\ UNCHANGED tracked /\ UNCHANGED <<users, sessions, favs, reqs, now, nextPid>>

\* deleteProperty: await Property.findByIdAndDelete(id)
ListingDelete(pid) ==
  /\ pid \in DOMAIN props
  /\ props' = [id \in DOMAIN props \ {pid} |-> props[id]]
  /\ UNCHANGED tracked /\ UNCHANGED <<users, sessions, favs, reqs, now, nextPid>>

InitList ==
  /\ users = SeededUsers
  /\ sessions = [s \in {"s2"} |-> 2]
  /\ props = << >>
  /\ favs = EmptyBag
  /\ reqs = [r \in ReqIds |-> Idle]
  /\ now = 1
  /\ nextPid = 1
  /\ InitTracked

\* The three listing routes, one request at a time, next to the writes of the
\* property controller
NextList ==
  \/ \E q \in {NoFilter} \cup OneParam :
       GetPropertiesFind(1, q, 10, 120, "createdAt", "desc")
  \/ GetPropertiesCount(1)
  \/ GetFeaturedProperties(1)
  \/ ServerProperties(1)
  \/ \E body \in ListingBodies : ListingCreate(body)
  \/ \E pid \in 1..MaxListed, st \in Statuses : ListingSetStatus(pid, st)
  \/ \E pid \in 1..MaxListed : ListingDelete(pid)

SpecList == InitList /\ [][NextList]_vars

\* A stored document: created at time t, its status possibly updated since
StoredListing(body, st, t) == [NewListing(body, t) EXCEPT !.status = st]

\* The contents the Property collection may have after creates and updates
Stores ==
  UNION { { [id \in 1..k |-> StoredListing(f[id][1], f[id][2], id)] :
              f \in [1..k -> ListingBodies \X Statuses] } : k \in 0..MaxListed }

\* Any store, and no request yet
InitFilter ==
  /\ users = SeededUsers
  /\ sessions = [s \in {"s2"} |-> 2]
  /\ props \in Stores
  /\ favs = EmptyBag
  /\ reqs = [r \in ReqIds |-> Idle]
  /\ now = Cardinality(DOMAIN props) + 1
  /\ nextPid = Cardinality(DOMAIN props) + 1
  /\ InitTracked

\* getProperties with every filter combination, default page and limit
NextFilter ==
  \/ \E q \in FilterQueries : GetPropertiesFind(1, q, 10, 120, "createdAt", "desc")
  \/ GetPropertiesCount(1)

SpecFilter == InitFilter /\ [][NextFilter]_vars

\* page, limit, sort and order of req.query
PageInputs  == {0 - 10, 0, 10, 20, 30}
LimitInputs == {10, 20}
SortInputs  == {<<"createdAt", "desc">>, <<"price", "asc">>}

\* getProperties without filter, page by page, two requests at a time
NextPage ==
  \E r \in ReqIds :
    \/ \E page \in PageInputs, limit \in LimitInputs, so \in SortInputs :
         GetPropertiesFind(r, NoFilter, page, limit, so[1], so[2])
    \/ GetPropertiesCount(r)

SpecPage == InitFilter /\ [][NextPage]_vars

-----------------------------------------------------------------------------
(* Properties *)

\* Case folding of an email address, as the properties read it
CaseFold(e) == IF e = "A@X.com" THEN "a@x.com" ELSE e

EmailTaken(e) == \E i \in 1..Len(users) : CaseFold(users[i].email) = CaseFold(e)

\* C1: in every reachable state the Favorite store holds at most one document
\* per (user, property) pair, whatever the interleaving of addFavorite,
\* removeFavorite and clearAllFavorites.
C1_OneFavoritePerPair ==
  \A u \in 1..Len(users), p \in PropIds : PairCount(favs, u, p) <= 1

\* Two addFavorite requests raced for one pair: one was rejected by the index.
C1_Witness ==
  \E r \in ReqIds, u \in 1..Len(users), p \in PropIds :
    /\ reqs[r].op = "addFavorite" /\ reqs[r].tag = "E11000"
    /\ PairCount(favs, u, p) = 1

\* C2 (as claimed): updateProperty and deleteProperty answer 403 and leave the
\* store alone for every authenticated requester that is neither the
\* property's owner nor an admin.
C2_ForbiddenIs403 ==
  [][\A r \in ReqIds, s \in DOMAIN sessions, pid \in PropIds :
       LET who == sessions[s]
           claimed == /\ who # NoUser
                      /\ pid \in DOMAIN props
                      /\ props[pid].owner # who
                      /\ users[who].role # "admin"
       IN /\ (StartDeleteProperty(r, s, pid) /\ claimed)
               => (reqs'[r].status = 403 /\ props' = props)
          /\ \A b \in UpdateBodies :
               (StartUpdateProperty(r, s, pid, b.owner, b.title) /\ claimed)
                 => (reqs'[r].status = 403 /\ props' = props)]_vars

\* C3: no two stored users have the same case-normalized email, whatever the
\* interleaving of register requests and Google logins.
C3_EmailUnique ==
  \A i, j \in 1..Len(users) :
    i # j => CaseFold(users[i].email) # CaseFold(users[j].email)

\* Two users are stored and a request that asked for a taken email was refused.
C3_Witness ==
  /\ Len(users) = 2
  /\ \E r \in ReqIds : reqs[r].pc = "done" /\ reqs[r].tag \in {"exists", "E11000"}

\* C4 (as claimed): a request whose insert hits the duplicate-key error of a
\* unique index answers 400.
C4_DuplicateKeyIs400 ==
  \A r \in ReqIds :
    (reqs[r].pc = "done" /\ reqs[r].tag = "E11000") => reqs[r].status = 400

\* C5 (as claimed): the password login puts user u in the session exactly when
\* a user with the presented email exists, has a password hash and the
\* presented password matches it; every other login answers 401 and leaves
\* the session alone.
C5_LoginIffCredentials ==
  [][\A r \in ReqIds :
       (reqs[r].pc = "l_find" /\ reqs'[r].pc = "done") =>
         LET q == reqs[r]
             ok(u) == /\ CaseFold(users[u].email) = CaseFold(q.email)
                      /\ users[u].password # ""
                      /\ users[u].password = hashPassword(q.password)
         IN IF \E u \in 1..Len(users) : ok(u)
            THEN /\ reqs'[r].status = 200
                 /\ ok(sessions'[q.sess])
            ELSE /\ reqs'[r].status = 401
                 /\ sessions' = sessions]_vars

\* C6: a register request whose email already belongs to a stored user is
\* answered 400 by the existence check, creates no user and leaves every
\* stored user as it was.
C6_RegisterExistingRejected ==
  [][\A r \in ReqIds :
       ( /\ reqs[r].op = "register"
         /\ reqs[r].pc \in {"r_find", "r_create"}
         /\ reqs'[r] # reqs[r]
         /\ EmailTaken(reqs[r].email) )
       => /\ users' = users
          /\ reqs'[r].pc = "done"
          /\ reqs[r].pc = "r_find" => reqs'[r].status = 400]_vars

\* A register was refused by the existence check while the email's owner is stored.
C6_Witness ==
  \E r \in ReqIds :
    /\ reqs[r].op = "register" /\ reqs[r].status = 400 /\ reqs[r].tag = "exists"
    /\ Len(users) >= 1

C8_Gates ==
  [][\A r \in ReqIds, s \in DOMAIN sessions :
       LET who == sessions[s]
           refused401 == /\ reqs'[r].pc = "done" /\ reqs'[r].status = 401
                         /\ reqs'[r].tag = "gate"
                         /\ props' = props /\ nextPid' = nextPid
           gated == IF who = NoUser THEN refused401 ELSE reqs'[r].tag # "gate"
       IN /\ AdminRoute(r, s) =>
               IF who # NoUser /\ users[who].role = "admin"
               THEN reqs'[r].status = 200 /\ reqs'[r].tag = "handled"
               ELSE reqs'[r].status = 403 /\ reqs'[r].tag = "gate"
          /\ \A t \in {"t1", ""} : CreateProperty(r, s, t) => gated
          /\ \A pid \in PropIds :
               /\ StartDeleteProperty(r, s, pid) => gated
               /\ \A b \in UpdateBodies :
                    StartUpdateProperty(r, s, pid, b.owner, b.title) => gated]_vars

\* Both gates have refused a request and a property was created behind the gate.
C8_Witness ==
  /\ \E r \in ReqIds : reqs[r].status = 401 /\ reqs[r].tag = "gate"
  /\ \E r \in ReqIds : reqs[r].op = "admin" /\ reqs[r].status = 403
  /\ props # << >>

C10_RemoveFavorite ==
  [][\A r \in ReqIds, s \in DOMAIN sessions, pid \in PropIds :
       RemoveFavorite(r, s, pid) =>
         LET who == sessions[s]
         IN IF PairCount(favs, who, pid) = 0
            THEN reqs'[r].status = 404 /\ favs' = favs
            ELSE /\ reqs'[r].status = 200
                 /\ PairCount(favs', who, pid) = PairCount(favs, who, pid) - 1
                 /\ BagCardinality(favs') = BagCardinality(favs) - 1
                 /\ \A f \in BagToSet(favs) :
                      (f.user # who \/ f.property # pid)
                        => CopiesIn(f, favs') = CopiesIn(f, favs)]_vars

\* A removeFavorite deleted its document and the store still holds another one.
C10_Witness ==
  /\ \E r \in ReqIds : reqs[r].op = "removeFavorite" /\ reqs[r].status = 200
  /\ favs # EmptyBag

-----------------------------------------------------------------------------
(* Listing *)

\* The elements of a sequence
Range(s) == {s[i] : i \in DOMAIN s}

\* The predicates of a listing query as the interface states them, on the
\* numbers the caller wrote
Satisfies(doc, q) ==
  /\ q.search # "" =>
       \/ Regex(q.search, doc.title)
       \/ Regex(q.search, doc.description)
       \/ Regex(q.search, doc.location)
  /\ q.location # "" => Regex(q.location, doc.city)
  /\ q.propertyType # "" => doc.propertyType = q.propertyType
  /\ q.minPrice # Absent => doc.price * Tenth >= q.minPrice * CrorePerUnit
  /\ q.maxPrice # Absent => doc.price * Tenth <= q.maxPrice * CrorePerUnit
  /\ q.bedrooms # Absent => doc.bedrooms * Tenth >= q.bedrooms
  /\ q.furnishing # "" => doc.furnishing = q.furnishing
  /\ q.possession # "" => doc.possession = q.possession
  /\ q.minArea # Absent => doc.area >= q.minArea
  /\ q.maxArea # Absent => doc.area <= q.maxArea
  /\ q.amenities # {} => doc.amenities \cap q.amenities # {}

\* The find of request r of the listing has just run
Found(r) == reqs[r].pc # "l_count" /\ reqs'[r].pc = "l_count"

ListingOps == {"getProperties", "getFeaturedProperties", "serverProperties"}

\* Request r of a listing route has just run its find
Listed(r) ==
  /\ reqs'[r] # reqs[r]
  /\ reqs'[r].op \in ListingOps
  /\ reqs[r].pc # "l_count"

\* C12: every property returned by the listing, by the featured listing and by
\* the server's own listing route has status 'active' at the time of the query,
\* whatever creates, status updates and deletes came before.
C12_OnlyActiveListed ==
  [][\A r \in ReqIds : Listed(r) =>
       \A id \in Range(reqs'[r].data) :
         id \in DOMAIN props /\ props[id].status = "active"]_vars

\* A listing has returned properties while the store holds a sold one
C12_Witness ==
  \E r \in ReqIds :
    /\ reqs[r].op = "getProperties" /\ reqs[r].pc = "l_count"
    /\ reqs[r].data # << >>
    /\ \E id \in DOMAIN props \ Range(reqs[r].data) : props[id].status = "sold"

\* Request r holds a page the listing has read
HasPage(r) ==
  /\ reqs[r].op = "getProperties"
  /\ reqs[r].pc \in {"l_count", "done"}
  /\ reqs[r].tag # "skipNegative"

\* C13: over a fixed store a page of the listing has at most `limit` items, and
\* the pages 1, 2, ..., totalPages put one after the other are the whole
\* filtered set in sorted order, every item exactly once, with
\* totalPages = ceil(total / limit).  Two requests are in flight, so the
\* concatenation is checked wherever two pages cover the filtered set.
C13_PagesPartition ==
  /\ \A r \in ReqIds : HasPage(r) => Len(reqs[r].data) <= reqs[r].limit
  /\ \A r \in ReqIds : HasPage(r) /\ reqs[r].pc = "done" =>
       reqs[r].totalPages = Ceil(reqs[r].total, reqs[r].limit)
  /\ \A r1, r2 \in ReqIds :
       /\ HasPage(r1) /\ HasPage(r2)
       /\ reqs[r1].page = 1 /\ reqs[r2].page = 2
       /\ reqs[r1].limit = reqs[r2].limit
       /\ reqs[r1].sort = reqs[r2].sort /\ reqs[r1].order = reqs[r2].order
       /\ Cardinality(Find(props, NoFilter)) <= 2 * reqs[r1].limit
       => reqs[r1].data \o reqs[r2].data
            \in SortedOrders(props, Find(props, NoFilter), reqs[r1].sort, reqs[r1].order)

\* C14: the page is 1-indexed and clamped to at least 1, and the offset is
\* (page - 1) * limit and never negative, for every integer page including 0
\* and negative ones, in the getPagination helper and in the listing.
C14_PageClamped ==
  /\ \A page \in PageInputs, limit \in LimitInputs :
       LET g == getPagination(page, limit)
       IN /\ g.currentPage >= 1
          /\ g.skip = (g.currentPage - 1) * g.perPage
          /\ g.skip >= 0
  /\ \A r \in ReqIds : reqs[r].op = "getProperties" =>
       /\ reqs[r].page >= 1
       /\ reqs[r].skip = (reqs[r].page - 1) * reqs[r].limit
       /\ reqs[r].skip >= 0

-----------------------------------------------------------------------------
(* Single fetch and identifiers *)

\* C15: a fetch of an existing property answers 200 with the property whether
\* the view-counter increment succeeds or fails; a failing increment is caught
\* and changes nothing, a succeeding one adds exactly 1 to the counter.
C15_FetchSurvivesViewFailure ==
  [][\A r \in ReqIds : reqs[r].pc = "g_inc" /\ reqs'[r].pc # "g_inc" =>
       /\ reqs'[r].status = 200
       /\ reqs'[r].pid = reqs[r].pid
       /\ IF reqs'[r].tag = "viewed"
          THEN /\ DOMAIN props' = DOMAIN props
               /\ props'[reqs[r].pid].views = props[reqs[r].pid].views + 1
               /\ \A p \in DOMAIN props \ {reqs[r].pid} : props'[p] = props[p]
          ELSE props' = props]_vars

\* A fetch answered 200 although its increment failed, next to a counted view
C15_Witness ==
  /\ \E r \in ReqIds :
       /\ reqs[r].op = "getProperty" /\ reqs[r].status = 200
       /\ reqs[r].tag = "viewFailed"
  /\ \E p \in DOMAIN props : props[p].views > 0

\* Request r arrives, from a signed-in user, at a handler that takes the
\* identifier pid, and the database does not fail
WithId(r, pid) ==
  \E s \in DOMAIN sessions :
    /\ Principal(s) # NoUser
    /\ \/ StartGetProperty(r, s, pid, FALSE)
       \/ \E t \in Titles : StartUpdateProperty(r, s, pid, Keep, t)
       \/ StartDeleteProperty(r, s, pid)
       \/ \E n \in NoteInputs : StartAddFavorite(r, s, pid, n)
       \/ RemoveFavorite(r, s, pid)

\* C16: getProperty, updateProperty, deleteProperty, addFavorite and
\* removeFavorite answer 400 to a malformed identifier and 404 to a well-formed
\* one that matches no record, leave the stores unchanged in both cases, and
\* answer 500 only when the database fails.
C16_IdentifierErrors ==
  [][\A r \in ReqIds :
       /\ WithId(r, BadId) =>
            reqs'[r].status = 400 /\ props' = props /\ favs' = favs
       /\ WithId(r, MissingId) =>
            reqs'[r].status = 404 /\ props' = props /\ favs' = favs
       /\ reqs'[r] # reqs[r] /\ reqs'[r].status = 500 =>
            reqs'[r].tag = "persistence"]_vars

-----------------------------------------------------------------------------
(* Contact form and failure responses *)

\* C17: POST /api/contact with name, email and message stores one Contact
\* record and answers 200; a request that omits name, email or message answers
\* 400 and stores nothing.
C17_ContactValidated ==
  [][\A r \in ReqIds, s \in DOMAIN sessions,
        name \in Names \cup {""}, email \in {"a@x.com", ""}, message \in {"hi", ""} :
       PostContact(r, s, name, email, message, "") =>
         IF ContactValid(name, email, message)
         THEN /\ reqs'[r].status = 200
              /\ Len(contacts') = Len(contacts) + 1
              /\ contacts'[Len(contacts')].message = message
         ELSE /\ reqs'[r].status = 400
              /\ contacts' = contacts]_vars

\* C18: a 500 response carries a generic message: two internal errors raised
\* in the same handler give identical response bodies, so no detail of the
\* error reaches the caller.
C18_GenericFailures ==
  \A r1, r2 \in ReqIds :
    /\ reqs[r1].pc = "done" /\ reqs[r2].pc = "done"
    /\ reqs[r1].status = 500 /\ reqs[r2].status = 500
    /\ reqs[r1].op = reqs[r2].op
    => reqs[r1].detail = reqs[r2].detail

-----------------------------------------------------------------------------
(* Tracking *)

\* C19: recording an interaction never affects the primary request:
\* trackInteraction swallows every failure, the page-view middleware calls
\* next() exactly once whether the user is absent, the write succeeds or the
\* write fails, and a request without a user writes no record.
C19_TrackingIsolated ==
  /\ \A r \in ReqIds : reqs[r].op = "pageView" =>
       /\ reqs[r].pc = "done" => reqs[r].nexts = 1 /\ reqs[r].status = 200
       /\ reqs[r].pc # "done" => reqs[r].nexts = 0
  /\ \A i \in DOMAIN interactions : interactions[i].user # NoUser

\* A page view went on to next() after its tracking write failed, next to a
\* guest's page view
C19_Witness ==
  /\ \E r \in ReqIds :
       reqs[r].op = "pageView" /\ reqs[r].tag = "trackFailed" /\ reqs[r].nexts = 1
  /\ \E r \in ReqIds : reqs[r].op = "pageView" /\ reqs[r].tag = "guest"

\* C20: the tracking identifier of a browser session is derived once and then
\* reused: all interaction records of one session carry the same sessionId,
\* for any order and overlap of the session's requests.
C20_OneSessionId ==
  \A i, j \in DOMAIN interactions :
    interactions[i].sess = interactions[j].sess
      => interactions[i].sessionId = interactions[j].sessionId

\* C21: telemetry is fire-and-forget: the page-view middleware hands the
\* request to the next handler without waiting for the interaction record's
\* save, so while a save is pending next() has already been called.
C21_FireAndForget ==
  \A r \in ReqIds : reqs[r].op = "pageView" /\ reqs[r].pc = "t_save" => reqs[r].nexts = 1

\* C23: whenever updateProperty answers success, a property with the requested
\* id existed when the write ran and the response carries the updated property,
\* not null - also when a deleteProperty of the same id runs between the
\* ownership check and the write.
C23_UpdateSucceedsOnExisting ==
  [][\A r \in ReqIds :
       /\ reqs[r].op = "updateProperty"
       /\ reqs[r].pc = "u_write"
       /\ reqs'[r].pc = "done"
       /\ reqs'[r].status = 200
       => /\ reqs[r].pid \in DOMAIN props
          /\ reqs'[r].tag = "updated"]_vars

\* C26: once a user record has a Google subject id, no later login changes
\* it - also a Google login whose profile has another subject id and the
\* email of the already linked user.
C26_GoogleIdStable ==
  [][\A i \in 1..Len(users) :
       users[i].googleId # "" => users'[i].googleId = users[i].googleId]_vars

\* C22: createProperty stores the authenticated requester as owner whatever
\* owner key the body carries, so the creator passes the ownership check of
\* update and delete on the fresh property; a body without title or without
\* price is answered 400 and nothing is stored.
C22_CreatorOwns ==
  [][\A r \in ReqIds, s \in DOMAIN sessions, t \in {"t1", ""},
        p \in PriceInputs, o \in OwnerInputs :
       CreatePropertyBody(r, s, t, p, o) /\ sessions[s] # NoUser =>
         /\ (t = "" \/ p = Absent) =>
              /\ reqs'[r].status = 400
              /\ props' = props
         /\ (t # "" /\ p # Absent) =>
              /\ reqs'[r].status = 201
              /\ DOMAIN props' = DOMAIN props \cup {nextPid}
              /\ \A pid \in DOMAIN props : props'[pid] = props[pid]
              /\ props'[nextPid].owner = sessions[s]
              /\ MayChange(props'[nextPid], sessions[s]) = "yes"]_vars

\* A create whose body named user 3 as owner stored its requester, user 2
C22_Witness ==
  \E r \in ReqIds, pid \in DOMAIN props :
    /\ reqs[r].op = "createProperty"
    /\ reqs[r].status = 201
    /\ reqs[r].owner = 3
    /\ props[pid].owner = 2
    /\ props[pid].title = "t1"

\* The favorite documents of fs that belong to users other than u
OthersOf(fs, u) == {f \in BagToSet(fs) : f.user # u}

\* C24: a favorite operation of user u reads and changes only u's favorites:
\* getFavorites and checkFavorite report only u's records, and addFavorite,
\* removeFavorite and clearAllFavorites leave the records of every other user
\* as they were; clearAllFavorites removes all of u's records and only those.
C24_OwnFavoritesOnly ==
  [][/\ \A r \in ReqIds, s \in DOMAIN sessions :
          LET u == sessions[s]
              mine == {f \in BagToSet(favs) : f.user = u}
          IN /\ GetFavorites(r, s) /\ u # NoUser =>
                  /\ reqs'[r].status = 200
                  /\ reqs'[r].favorites = mine
                  /\ favs' = favs
             /\ \A pid \in PropIds :
                  CheckFavorite(r, s, pid) /\ u # NoUser =>
                    /\ reqs'[r].isFavorite = (\E f \in mine : f.property = pid)
                    /\ favs' = favs
             /\ ClearAllFavorites(r, s) /\ u # NoUser =>
                  /\ BagToSet(favs') = OthersOf(favs, u)
                  /\ \A f \in OthersOf(favs, u) : CopiesIn(f, favs') = CopiesIn(f, favs)
             /\ \A pid \in PropIds :
                  RemoveFavorite(r, s, pid) \/ StartAddFavorite(r, s, pid, "n1") =>
                    /\ OthersOf(favs', u) = OthersOf(favs, u)
                    /\ \A f \in OthersOf(favs, u) : CopiesIn(f, favs') = CopiesIn(f, favs)
     /\ \A r \in ReqIds :
          AddFavoriteFindOne(r) \/ AddFavoriteCreate(r) =>
            /\ OthersOf(favs', reqs[r].who) = OthersOf(favs, reqs[r].who)
            /\ \A f \in OthersOf(favs, reqs[r].who) : CopiesIn(f, favs') = CopiesIn(f, favs)
            /\ \A f \in BagToSet(favs') : CopiesIn(f, favs') # CopiesIn(f, favs)
                  => f.user = reqs[r].who]_vars

\* getFavorites reported a user's favorite while another user has one too
C24_Witness ==
  \E r \in ReqIds :
    /\ reqs[r].op = "getFavorites"
    /\ reqs[r].status = 200
    /\ reqs[r].favorites # {}
    /\ \E f \in BagToSet(favs) : f \notin reqs[r].favorites

====
